---- MODULE Spec2Model ----
(***************************************************************************)
(* Model of the planning engine of Course-Planner (engine/scheduler.py):   *)
(* the course catalog, the major's requirement set, the prerequisite       *)
(* graph, Kahn's topological sort and the greedy semester placement.       *)
(*                                                                         *)
(* Conventions                                                             *)
(*  - a Python str is a sequence of one-character strings, so that         *)
(*    str.strip() and str.upper() are computed and not assumed;            *)
(*  - a Python dict whose enumeration order is read is a record            *)
(*    [keys |-> sequence of keys in insertion order, adj |-> function];    *)
(*  - a Python set whose enumeration order is read (major_courses) is a    *)
(*    duplicate-free sequence: its range is the set, its order the order   *)
(*    a for-loop over the set yields;                                      *)
(*  - list index i of Python is i + 1 here; claims speak of Python's i;    *)
(*  - credit and difficulty are floats in the code; they are integers      *)
(*    here (a fixed-point scale) and quotients are compared exactly by     *)
(*    cross-multiplication.                                                *)
(***************************************************************************)
EXTENDS Integers, Sequences, FiniteSets, TLC

VARIABLES
    courses,                   \* Scheduler.courses: code -> Course
    major_courses,             \* student.major.major_courses (set, enumeration order);
                               \* the Major dataclass calls the field required_courses
    credit_required,           \* student.major.credit_required
    graph,                     \* Scheduler.graph: prereq -> list of dependents
    courses_taken,             \* student.courses_taken
    current_semester_courses,  \* student.current_semester_courses
    planned_courses,           \* student.planned_courses: list of lists of codes
    last,                      \* the last call: its name, arguments, outcome
    topo_graph,                \* the argument of the last topo_sort call
    topo_result                \* the list the last topo_sort call returned

vars == <<courses, major_courses, credit_required, graph, courses_taken,
          current_semester_courses, planned_courses, last, topo_graph, topo_result>>

(***************************************************************************)
(* Bounds of the model.                                                    *)
(***************************************************************************)
\* most edges (duplicates counted) of a graph handed to topo_sort
MaxEdges == 3
\* longest requirements list of a course of the catalog
MaxReqs == 1
\* most keyword arguments of one edit_course call
MaxUpdates == 2
\* longest planned grid
MaxGrid == 2
\* most courses the student completes or enrolls in
MaxDone == 1
\* generate_plan is not called once the grid holds this many entries
MaxPlanned == 2

\* Optional[float] credit: the value standing for None (a credit is never negative)
None == -1

(***************************************************************************)
(* Generic helpers.                                                        *)
(***************************************************************************)
Range(s) == {s[i] : i \in 1..Len(s)}

IsInjective(s) == \A i, j \in 1..Len(s) : s[i] = s[j] => i = j

\* the enumerations of a finite set
Perms(S) == {s \in [1..Cardinality(S) -> S] : Range(s) = S}

SeqsUpTo(S, n) == UNION {[1..m -> S] : m \in 0..n}

RECURSIVE SumSeq(_)
SumSeq(s) == IF s = <<>> THEN 0 ELSE Head(s) + SumSeq(Tail(s))

\* position of the first occurrence of x in s, 0 when absent
IndexOf(s, x) == IF x \in Range(s) THEN CHOOSE i \in 1..Len(s) : s[i] = x /\ \A j \in 1..(i-1) : s[j] # x
                 ELSE 0

\* dict.get(u, [])
GetList(adj, u) == IF u \in DOMAIN adj THEN adj[u] ELSE <<>>

(***************************************************************************)
(* str.strip().upper()                                                     *)
(***************************************************************************)
Upper(c) == CASE c = "a" -> "A"
              [] c = "b" -> "B"
              [] c = "c" -> "C"
              [] OTHER -> c

RECURSIVE LStrip(_)
LStrip(s) == IF s # <<>> /\ Head(s) = " " THEN LStrip(Tail(s)) ELSE s

RECURSIVE RStrip(_)
RStrip(s) == IF s # <<>> /\ s[Len(s)] = " " THEN RStrip(SubSeq(s, 1, Len(s) - 1)) ELSE s

Strip(s) == RStrip(LStrip(s))

UpperStr(s) == [i \in 1..Len(s) |-> Upper(s[i])]

Normalize(s) == UpperStr(Strip(s))

(***************************************************************************)
(* topo_sort: Kahn's algorithm over an ordered dict g = [keys, adj].       *)
(***************************************************************************)
\* the edge targets in the order "for deps in graph.values(): for v in deps" meets them
RECURSIVE Targets(_, _)
Targets(keys, adj) == IF keys = <<>> THEN <<>>
                      ELSE adj[Head(keys)] \o Targets(Tail(keys), adj)

\* a slip: a target already in the table is not counted again
RECURSIVE CountIndegree_Once(_, _)
CountIndegree_Once(ts, ind) ==
    IF ts = <<>> THEN ind
    ELSE LET v == Head(ts) IN
         IF v \in DOMAIN ind.deg
         THEN CountIndegree_Once(Tail(ts), [ind EXCEPT !.deg[v] = 1])
         ELSE CountIndegree_Once(Tail(ts), [keys |-> Append(ind.keys, v),
                                            deg  |-> ind.deg @@ (v :> 1)])

\* indegree[v] = indegree.get(v, 0) + 1 for every target; a new key is appended
RECURSIVE CountIndegree(_, _)
CountIndegree(ts, ind) ==
    IF ts = <<>> THEN ind
    ELSE LET v == Head(ts) IN
         IF v \in DOMAIN ind.deg
         THEN CountIndegree(Tail(ts), [ind EXCEPT !.deg[v] = @ + 1])
         ELSE CountIndegree(Tail(ts), [keys |-> Append(ind.keys, v),
                                       deg  |-> ind.deg @@ (v :> 1)])

Indegree(g) == CountIndegree(Targets(g.keys, g.adj),
                             [keys |-> g.keys, deg |-> [u \in Range(g.keys) |-> 0]])

\* a slip: every target is enqueued, whatever its indegree has become
RECURSIVE Relax_Always(_, _, _)
Relax_Always(vs, deg, q) ==
    IF vs = <<>> THEN [deg |-> deg, q |-> q]
    ELSE LET v == Head(vs)
             d == deg[v] - 1
         IN Relax_Always(Tail(vs), [deg EXCEPT ![v] = d], Append(q, v))

\* the inner loop: for v in graph.get(u, []): indegree[v] -= 1; enqueue at 0
RECURSIVE Relax(_, _, _)
Relax(vs, deg, q) ==
    IF vs = <<>> THEN [deg |-> deg, q |-> q]
    ELSE LET v == Head(vs)
             d == deg[v] - 1
         IN Relax(Tail(vs), [deg EXCEPT ![v] = d], IF d = 0 THEN Append(q, v) ELSE q)

\* the while loop: popleft, append to result, relax the outgoing edges
RECURSIVE Kahn(_, _, _, _)
Kahn(adj, q, deg, result) ==
    IF q = <<>> THEN result
    ELSE LET u == Head(q)
             r == Relax(GetList(adj, u), deg, Tail(q))
         IN Kahn(adj, r.q, r.deg, Append(result, u))

\* a slip: the nodes a cycle held back are appended to the result
TopoSort_Rest(g) ==
    LET ind == Indegree(g)
        q0  == SelectSeq(ind.keys, LAMBDA u : ind.deg[u] = 0)
        r   == Kahn(g.adj, q0, ind.deg, <<>>)
    IN r \o SelectSeq(ind.keys, LAMBDA u : u \notin Range(r))

TopoSort(g) ==
    LET ind == Indegree(g)
        q0  == SelectSeq(ind.keys, LAMBDA u : ind.deg[u] = 0)
    IN Kahn(g.adj, q0, ind.deg, <<>>)

(***************************************************************************)
(* The catalog and the requirement set.                                    *)
(*                                                                         *)
(* A Course is the record of the fields the engine reads: requirements,    *)
(* semesters_offered, weekly_hours (weekday -> <<start, end>>), difficulty *)
(* and credit (None when unknown).  code, title and description are        *)
(* attributes too (edit_course accepts them) but nothing in the engine     *)
(* reads them back.                                                        *)
(***************************************************************************)
CourseFields == {"code", "title", "description", "requirements", "semesters_offered",
                 "weekly_hours", "difficulty", "credit"}

EmptyDict == [x \in {} |-> <<>>]

\* "x or 0" of a credit
CreditOrZero(c) == IF c = None THEN 0 ELSE c

\* sum(self.courses[c].credit or 0 for c in major_courses)
MajorCreditSum(major, cat) == SumSeq([i \in 1..Len(major) |-> CreditOrZero(cat[major[i]].credit)])

\* for prereq in requirements: graph[prereq].append(course)   (graph is a defaultdict(list))
RECURSIVE AddEdges(_, _, _)
AddEdges(g, reqs, course) ==
    IF reqs = <<>> THEN g
    ELSE LET p == Head(reqs) IN
         AddEdges(IF p \in DOMAIN g THEN [g EXCEPT ![p] = Append(@, course)]
                  ELSE g @@ (p :> <<course>>),
                  Tail(reqs), course)

RECURSIVE BuildFrom(_, _, _)
BuildFrom(major, cat, g) ==
    IF major = <<>> THEN g
    ELSE BuildFrom(Tail(major), cat, AddEdges(g, cat[Head(major)].requirements, Head(major)))

\* build_prereq_graph: clear, then one pass over the major in its enumeration order
BuildPrereqGraph(major, cat) == BuildFrom(major, cat, EmptyDict)

\* set.add of a new element: it lands anywhere in the enumeration order
SetAdd(s, x) == {SubSeq(s, 1, i) \o <<x>> \o SubSeq(s, i + 1, Len(s)) : i \in 0..Len(s)}

\* Course.from_dict: the record built from the raw dict.  As written it hands
\* the dataclass a keyword it lacks (credits) and leaves out weekly_hours and
\* difficulty; the model takes the Course the scheduler reads afterwards, with
\* each field drawn from the raw dict.
FromDict(raw) == [requirements      |-> raw.requirements,
                  semesters_offered |-> raw.semesters_offered,
                  weekly_hours      |-> raw.weekly_hours,
                  difficulty        |-> raw.difficulty,
                  credit            |-> raw.credit]

\* setattr(course, field, value)
SetAttr(course, f, v) == IF f \in DOMAIN course THEN [course EXCEPT ![f] = v] ELSE course

\* the loop of edit_course over updates.items(): stops at the first unknown field
RECURSIVE ApplyUpdates(_, _)
ApplyUpdates(course, ups) ==
    IF ups = <<>> THEN [course |-> course, raised |-> FALSE]
    ELSE IF Head(ups)[1] \notin CourseFields THEN [course |-> course, raised |-> TRUE]
    ELSE ApplyUpdates(SetAttr(course, Head(ups)[1], Head(ups)[2]), Tail(ups))

UpdateFields(ups) == {ups[i][1] : i \in 1..Len(ups)}

\* a slip: the credit total is left as it was
CreditAfterEdit_Stale(ups, major, cat, old) == old

\* credit_required after the edits of a call that did not raise
CreditAfterEdit(ups, major, cat, old) ==
    IF "credit" \in UpdateFields(ups) THEN MajorCreditSum(major, cat) ELSE old

\* the graph after the edits of a call that did not raise
GraphAfterEdit(ups, major, cat, old) ==
    IF "requirements" \in UpdateFields(ups) THEN BuildPrereqGraph(major, cat) ELSE old

\* a slip: the membership test is left out
AddMajorRejected_NoMemberTest(code, cat, major) == code \notin DOMAIN cat

\* the two early returns of add_major_course
AddMajorRejected(code, cat, major) == code \notin DOMAIN cat \/ code \in Range(major)

\* credit_required after add_major_course added code
CreditAfterAdd(old, cat, code) == old + CreditOrZero(cat[code].credit)

\* the record of a call
Call(op, arg, ret) == [op |-> op, arg |-> arg, ret |-> ret, repeat |-> FALSE,
                       k |-> 0, trace |-> <<>>]

NoCall == Call("init", <<>>, "None")

(***************************************************************************)
(* Inputs of the catalog operations.                                       *)
(***************************************************************************)
CodeA == <<"A">>
CodeB == <<"B">>
CodeC == <<"C">>

\* codes a raw course dict may carry; <<>> is the empty (falsy) code
RawCodes == {CodeA, CodeB, <<>>}

\* course_code arguments: canonical, lower case, padded, and one that is never in the catalog
InputCodes == {CodeA, <<"a", " ">>, CodeB, <<" ", "b">>, CodeC}

\* course_code arguments of edit_course
EditCodes == {<<"a", " ">>, CodeC}

Credits == {None, 1}

\* codes a requirements list may name
ReqCodes == {CodeA}

ReqLists == SeqsUpTo(ReqCodes, MaxReqs)

\* raw dicts handed to add_course
RawCourses == [code : RawCodes, requirements : ReqLists, semesters_offered : {{"Fall"}},
               weekly_hours : {EmptyDict}, difficulty : {1}, credit : Credits]

UpdateItems == ({"credit"} \X Credits) \cup ({"requirements"} \X ReqLists)
               \cup {<<"bogus", 0>>}

\* **updates: keyword arguments in call order, no keyword twice
UpdateLists == {u \in SeqsUpTo(UpdateItems, MaxUpdates) :
                   \A i, j \in 1..Len(u) : u[i][1] = u[j][1] => i = j}

(***************************************************************************)
(* The catalog operations.                                                 *)
(***************************************************************************)
StudentUnchanged == UNCHANGED <<courses_taken, current_semester_courses, planned_courses>>

TopoUnchanged == UNCHANGED <<topo_graph, topo_result>>

AddCourse(raw) ==
    /\ IF raw.code = <<>> \/ raw.code \in DOMAIN courses
       THEN /\ last' = Call("add_course", <<>>, "False")
            /\ UNCHANGED courses
       ELSE /\ courses' = courses @@ (raw.code :> FromDict(raw))
            /\ last' = Call("add_course", <<>>, "True")
    /\ UNCHANGED <<major_courses, credit_required, graph>>
    /\ StudentUnchanged /\ TopoUnchanged

AddMajorCourse(course_code) ==
    LET code == Normalize(course_code)
        rep  == last.op = "add_major_course" /\ last.arg = code
    IN /\ IF AddMajorRejected(code, courses, major_courses)
          THEN /\ last' = [Call("add_major_course", code, "False") EXCEPT !.repeat = rep]
               /\ UNCHANGED <<major_courses, credit_required, graph>>
          ELSE /\ major_courses' \in SetAdd(major_courses, code)
               /\ credit_required' = CreditAfterAdd(credit_required, courses, code)
               /\ graph' = BuildPrereqGraph(major_courses', courses)
               /\ last' = [Call("add_major_course", code, "True") EXCEPT !.repeat = rep]
       /\ UNCHANGED courses
       /\ StudentUnchanged /\ TopoUnchanged

EditCourse(course_code, ups) ==
    LET code == Normalize(course_code) IN
    /\ IF code \notin DOMAIN courses
       THEN /\ last' = Call("edit_course", UpdateFields(ups), "False")
            /\ UNCHANGED <<courses, credit_required, graph>>
       ELSE LET r == ApplyUpdates(courses[code], ups) IN
            /\ courses' = [courses EXCEPT ![code] = r.course]
            /\ IF r.raised
               THEN /\ last' = Call("edit_course", UpdateFields(ups), "ValueError")
                    /\ UNCHANGED <<credit_required, graph>>
               ELSE /\ credit_required' = CreditAfterEdit(ups, major_courses, courses', credit_required)
                    /\ graph' = GraphAfterEdit(ups, major_courses, courses', graph)
                    /\ last' = Call("edit_course", UpdateFields(ups), "True")
    /\ UNCHANGED major_courses
    /\ StudentUnchanged /\ TopoUnchanged

BuildGraphCall ==
    /\ graph' = BuildPrereqGraph(major_courses, courses)
    /\ last' = Call("build_prereq_graph", <<>>, "None")
    /\ UNCHANGED <<courses, major_courses, credit_required>>
    /\ StudentUnchanged /\ TopoUnchanged

(***************************************************************************)
(* The catalog specification: a fresh Scheduler for a student whose major  *)
(* has no course yet, driven by the four catalog operations.               *)
(***************************************************************************)
InitEmpty ==
    /\ courses = EmptyDict
    /\ major_courses = <<>>
    /\ credit_required = 0
    /\ graph = EmptyDict
    /\ courses_taken = {}
    /\ current_semester_courses = {}
    /\ planned_courses = <<>>
    /\ last = NoCall
    /\ topo_graph = [keys |-> <<>>, adj |-> EmptyDict]
    /\ topo_result = <<>>

NextCatalog ==
    \/ \E raw \in RawCourses : AddCourse(raw)
    \/ \E c \in InputCodes : AddMajorCourse(c)
    \/ \E c \in EditCodes, u \in UpdateLists : EditCourse(c, u)
    \/ BuildGraphCall

SpecCatalog == InitEmpty /\ [][NextCatalog]_vars

(***************************************************************************)
(* generate_plan.                                                          *)
(*                                                                         *)
(* Semester indices are Python's (0-based); slot sem of a list is element  *)
(* sem + 1 here.  A running average diff_sum/count is the pair             *)
(* <<numerator, denominator>>, <<0, 1>> for an empty slot.                 *)
(***************************************************************************)
\* terms[sem] of terms = ["Fall", "Spring"] * ((len(plan)+1)//2)
TermAt(sem) == IF sem % 2 = 0 THEN "Fall" ELSE "Spring"

\* not (end <= s2 or start >= e2)
Overlaps(start, end, s2, e2) == ~(end <= s2 \/ start >= e2)

\* the conflict test of one semester: any day of the course against the
\* intervals registered for that day
Conflict(wh, slot) ==
    \E day \in DOMAIN wh :
        \E i \in 1..Len(GetList(slot, day)) :
            Overlaps(wh[day][1], wh[day][2], slot[day][i][1], slot[day][i][2])

\* a slip: the offered-terms test is left out
Candidates_AnyTerm(course, k, slots) ==
    SelectSeq([i \in 1..(Len(slots) - k) |-> k + i - 1],
              LAMBDA sem : ~Conflict(course.weekly_hours, slots[sem + 1]))

\* for sem in range(current_semester_idx, len(plan)): the semesters kept
Candidates(course, k, slots) ==
    SelectSeq([i \in 1..(Len(slots) - k) |-> k + i - 1],
              LAMBDA sem : /\ TermAt(sem) \in course.semesters_offered
                           /\ ~Conflict(course.weekly_hours, slots[sem + 1]))

\* avg(idx): diff_sum[idx]/count[idx] if count[idx] else 0.0
Avg(st, sem) == IF st.count[sem + 1] # 0 THEN <<st.diff_sum[sem + 1], st.count[sem + 1]>>
                ELSE <<0, 1>>

\* a < b for quotients with positive denominators
QLess(a, b) == a[1] * b[2] < b[1] * a[2]

\* a slip: the last of the minimal candidates is taken
RECURSIVE MinByAvg_Last(_, _, _)
MinByAvg_Last(cands, best, st) ==
    IF cands = <<>> THEN best
    ELSE MinByAvg_Last(Tail(cands),
                       IF ~QLess(Avg(st, best), Avg(st, Head(cands))) THEN Head(cands) ELSE best,
                       st)

\* min(candidates, key=avg): the first candidate of minimal average
RECURSIVE MinByAvg(_, _, _)
MinByAvg(cands, best, st) ==
    IF cands = <<>> THEN best
    ELSE MinByAvg(Tail(cands),
                  IF QLess(Avg(st, Head(cands)), Avg(st, best)) THEN Head(cands) ELSE best,
                  st)

\* schedule_slots[best][day].append(interval) for every day of the course
Register(slot, wh) ==
    [day \in DOMAIN slot \cup DOMAIN wh |->
        GetList(slot, day) \o (IF day \in DOMAIN wh THEN <<wh[day]>> ELSE <<>>)]

\* sorted(order, key=difficulty, reverse=True): stable, descending
RECURSIVE InsertDesc(_, _, _)
InsertDesc(sorted, code, cat) ==
    IF sorted = <<>> THEN <<code>>
    ELSE IF cat[Head(sorted)].difficulty < cat[code].difficulty
         THEN <<code>> \o sorted
         ELSE <<Head(sorted)>> \o InsertDesc(Tail(sorted), code, cat)

\* a slip: the topological order is kept as it is
SortDesc_Keep(order, sorted, cat) == order

RECURSIVE SortDesc(_, _, _)
SortDesc(order, sorted, cat) ==
    IF order = <<>> THEN sorted
    ELSE SortDesc(Tail(order), InsertDesc(sorted, Head(order), cat), cat)

\* a slip: the code is put in front of the semester's list
Assign_Prepend(st, code, course, best) ==
    [plan     |-> [st.plan EXCEPT ![best + 1] = <<code>> \o @],
     diff_sum |-> [st.diff_sum EXCEPT ![best + 1] = @ + course.difficulty],
     count    |-> [st.count EXCEPT ![best + 1] = @ + 1],
     slots    |-> [st.slots EXCEPT ![best + 1] = Register(@, course.weekly_hours)],
     trace    |-> Append(st.trace, [code |-> code, sem |-> best])]

\* plan[best].append(code) and the bookkeeping of one placement; the trace
\* lists the placements of the call in order
Assign(st, code, course, best) ==
    [plan     |-> [st.plan EXCEPT ![best + 1] = Append(@, code)],
     diff_sum |-> [st.diff_sum EXCEPT ![best + 1] = @ + course.difficulty],
     count    |-> [st.count EXCEPT ![best + 1] = @ + 1],
     slots    |-> [st.slots EXCEPT ![best + 1] = Register(@, course.weekly_hours)],
     trace    |-> Append(st.trace, [code |-> code, sem |-> best])]

\* the placement loop
RECURSIVE PlaceAll(_, _, _, _)
PlaceAll(order, st, k, cat) ==
    IF order = <<>> THEN st
    ELSE LET course == cat[Head(order)]
             cands  == Candidates(course, k, st.slots)
         IN IF cands = <<>> THEN PlaceAll(Tail(order), st, k, cat)
            ELSE PlaceAll(Tail(order),
                          Assign(st, Head(order), course, MinByAvg(Tail(cands), Head(cands), st)),
                          k, cat)

\* induced = {u: [v for v in graph.get(u, []) if v in remaining] for u in remaining}
Induced(g, rem) ==
    [keys |-> rem,
     adj  |-> [u \in Range(rem) |-> SelectSeq(GetList(g, u), LAMBDA v : v \in Range(rem))]]

\* the trackers before the first placement
StartOf(plan) ==
    [plan     |-> plan,
     diff_sum |-> [i \in 1..Len(plan) |-> 0],
     count    |-> [i \in 1..Len(plan) |-> 0],
     slots    |-> [i \in 1..Len(plan) |-> EmptyDict],
     trace    |-> <<>>]

RECURSIVE ProdSeq(_)
ProdSeq(s) == IF s = <<>> THEN 1 ELSE Head(s) * ProdSeq(Tail(s))

\* a slip: one pooled average over all the courses placed
MeanOfAverages_Pooled(st, k) ==
    LET filled == SelectSeq([i \in 1..(Len(st.plan) - k) |-> k + i], LAMBDA i : st.count[i] > 0)
    IN IF filled = <<>> THEN <<0, 1>>
       ELSE <<SumSeq([j \in 1..Len(filled) |-> st.diff_sum[filled[j]]]),
              SumSeq([j \in 1..Len(filled) |-> st.count[filled[j]]])>>

\* sum(per_sem) / len(per_sem) as a quotient, <<0, 1>> when nothing was filled
MeanOfAverages(st, k) ==
    LET filled == SelectSeq([i \in 1..(Len(st.plan) - k) |-> k + i], LAMBDA i : st.count[i] > 0)
        dens   == [j \in 1..Len(filled) |-> st.count[filled[j]]]
        all    == ProdSeq(dens)
    IN IF filled = <<>> THEN <<0, 1>>
       ELSE <<SumSeq([j \in 1..Len(filled) |-> st.diff_sum[filled[j]] * (all \div dens[j])]),
              all * Len(filled)>>

\* a slip: done leaves out the courses of the current semester
Remaining_TakenOnly(major, taken, current) == SelectSeq(major, LAMBDA c : c \notin taken)

\* remaining = all_reqs - done: the set, in the enumeration order it inherits
\* from major_courses (both are built from the same hash table layout)
Remaining(major, taken, current) == SelectSeq(major, LAMBDA c : c \notin taken \cup current)

GridSize(plan) == SumSeq([i \in 1..Len(plan) |-> Len(plan[i])])

GeneratePlan(k) ==
    /\ GridSize(planned_courses) < MaxPlanned
    /\ LET rem   == Remaining(major_courses, courses_taken, current_semester_courses)
           order == TopoSort(Induced(graph, rem))
           st    == PlaceAll(SortDesc(order, <<>>, courses), StartOf(planned_courses), k, courses)
       IN /\ planned_courses' = st.plan
          /\ last' = [Call("generate_plan", <<>>, MeanOfAverages(st, k))
                         EXCEPT !.k = k, !.trace = st.trace]
    /\ UNCHANGED <<courses, major_courses, credit_required, graph,
                   courses_taken, current_semester_courses>>
    /\ TopoUnchanged

\* the student completes a required course
TakeCourse(c) ==
    /\ c \in Range(Remaining(major_courses, courses_taken, current_semester_courses))
    /\ Cardinality(courses_taken \cup current_semester_courses) < MaxDone
    /\ courses_taken' = courses_taken \cup {c}
    /\ last' = Call("take", <<>>, "None")
    /\ UNCHANGED <<courses, major_courses, credit_required, graph,
                   current_semester_courses, planned_courses>>
    /\ TopoUnchanged

\* the student enrolls in a required course
EnrollCourse(c) ==
    /\ c \in Range(Remaining(major_courses, courses_taken, current_semester_courses))
    /\ Cardinality(courses_taken \cup current_semester_courses) < MaxDone
    /\ current_semester_courses' = current_semester_courses \cup {c}
    /\ last' = Call("enroll", <<>>, "None")
    /\ UNCHANGED <<courses, major_courses, credit_required, graph,
                   courses_taken, planned_courses>>
    /\ TopoUnchanged

(***************************************************************************)
(* The planning specification: a catalog of three courses, a major over    *)
(* some of them with its graph built, and an empty grid.                   *)
(***************************************************************************)
Mon(s, e) == "Monday" :> <<s, e>>

Tue(s, e) == "Tuesday" :> <<s, e>>

PoolA == [requirements : {<<>>}, semesters_offered : {{"Fall"}},
          weekly_hours : {Mon(9, 11)}, difficulty : {2, 4}, credit : {1}]

PoolB == [requirements : {<<>>, <<CodeA>>}, semesters_offered : {{"Fall", "Spring"}},
          weekly_hours : {Mon(10, 12), Mon(11, 12) @@ Tue(9, 10)}, difficulty : {2}, credit : {1}]

PoolC == [requirements : {<<>>}, semesters_offered : {{}, {"Summer"}, {"Fall", "Spring"}},
          weekly_hours : {Tue(9, 10)}, difficulty : {2}, credit : {None}]

PlanCatalogs == {(CodeA :> a) @@ (CodeB :> b) @@ (CodeC :> c) : a \in PoolA, b \in PoolB, c \in PoolC}

\* the major, in any enumeration order
PlanMajors == Perms({CodeA, CodeB}) \cup Perms({CodeA, CodeB, CodeC})

InitPlan ==
    /\ courses \in PlanCatalogs
    /\ major_courses \in PlanMajors
    /\ credit_required = MajorCreditSum(major_courses, courses)
    /\ graph = BuildPrereqGraph(major_courses, courses)
    /\ courses_taken = {}
    /\ current_semester_courses = {}
    /\ planned_courses \in {[i \in 1..n |-> <<>>] : n \in 1..MaxGrid}
    /\ last = NoCall
    /\ topo_graph = [keys |-> <<>>, adj |-> EmptyDict]
    /\ topo_result = <<>>

NextPlan ==
    \/ \E k \in 0..Len(planned_courses) : GeneratePlan(k)
    \/ \E c \in Range(major_courses) : TakeCourse(c)
    \/ \E c \in Range(major_courses) : EnrollCourse(c)

SpecPlan == InitPlan /\ [][NextPlan]_vars

(***************************************************************************)
(* The planning specification over catalogs whose prerequisite edges are   *)
(* not in line with difficulty or form a cycle, and over majors that leave *)
(* a prerequisite out.                                                     *)
(***************************************************************************)
\* A with a prerequisite: B, which is easier than A, or A itself
PoolAReq == [requirements : {<<CodeB>>, <<CodeA>>}, semesters_offered : {{"Fall"}},
             weekly_hours : {Mon(9, 11)}, difficulty : {4}, credit : {1}]

\* C offered in both terms, free or with the prerequisite B
PoolCReq == [requirements : {<<>>, <<CodeB>>}, semesters_offered : {{"Fall", "Spring"}},
             weekly_hours : {Tue(9, 10)}, difficulty : {2}, credit : {None}]

PrereqCatalogs == {(CodeA :> a) @@ (CodeB :> b) @@ (CodeC :> c) : a \in PoolAReq, b \in PoolB, c \in PoolCReq}

\* the major, in any enumeration order; A is no member of the major {B, C}
PrereqMajors == Perms({CodeA, CodeB, CodeC}) \cup Perms({CodeB, CodeC})

InitPrereq ==
    /\ courses \in PrereqCatalogs
    /\ major_courses \in PrereqMajors
    /\ credit_required = MajorCreditSum(major_courses, courses)
    /\ graph = BuildPrereqGraph(major_courses, courses)
    /\ courses_taken = {}
    /\ current_semester_courses = {}
    /\ planned_courses \in {[i \in 1..n |-> <<>>] : n \in 1..MaxGrid}
    /\ last = NoCall
    /\ topo_graph = [keys |-> <<>>, adj |-> EmptyDict]
    /\ topo_result = <<>>

SpecPrereq == InitPrereq /\ [][NextPlan]_vars

(***************************************************************************)
(* Claims about the catalog operations (checked under SpecCatalog).        *)
(***************************************************************************)
CreditSynced == credit_required = MajorCreditSum(major_courses, courses)

\* C5: if credit_required equals the sum of the members' credits (unknown = 0)
\* before an add_major_course call or an edit_course call that returns True,
\* it equals that sum after the call.
Th_C5 ==
    [][(/\ CreditSynced
        /\ \/ last'.op = "add_major_course"
           \/ last'.op = "edit_course" /\ last'.ret = "True")
       => CreditSynced']_vars

\* C5 witness: an edit_course call that updated the credit of A returned True
\* while A and B are members with known credits, and the total is in sync.
Wit_C5 ==
    /\ last.op = "edit_course" /\ last.ret = "True" /\ "credit" \in last.arg
    /\ Len(major_courses) = 2
    /\ courses[CodeA].credit = 1
    /\ credit_required = 2
    /\ CreditSynced

\* C6: a mutation operation that fails (returns False, or raises the
\* unknown-field error) leaves catalog, major, credit_required and graph as
\* they were before the call.
Cx_C6 ==
    [][(/\ last'.op \in {"add_course", "add_major_course", "edit_course"}
        /\ last'.ret \in {"False", "ValueError"})
       => UNCHANGED <<courses, major_courses, credit_required, graph>>]_vars

\* edge p -> d is in the graph
HasEdge(g, p, d) == p \in DOMAIN g /\ d \in Range(g[p])

\* the graph holds exactly the edges the current major and catalog derive
GraphDerived ==
    /\ \A p \in DOMAIN graph : \A d \in Range(graph[p]) :
           d \in Range(major_courses) /\ p \in Range(courses[d].requirements)
    /\ \A d \in Range(major_courses) : \A p \in Range(courses[d].requirements) :
           HasEdge(graph, p, d)

\* C7: after build_prereq_graph, and after every add_major_course or
\* edit_course call that returns True, the graph is exactly the derivation of
\* the current major and catalog.
Cx_C7 ==
    (\/ last.op = "build_prereq_graph"
     \/ last.op \in {"add_major_course", "edit_course"} /\ last.ret = "True")
    => GraphDerived

\* C8: a second add_major_course call in succession with the same code (up to
\* whitespace and case) returns False and leaves membership, credit_required
\* and graph as the first call left them.
Th_C8 ==
    [][(/\ last.op = "add_major_course"
        /\ last'.op = "add_major_course"
        /\ last'.arg = last.arg)
       => /\ last'.ret = "False"
          /\ UNCHANGED <<major_courses, credit_required, graph>>]_vars

\* C8 witness: the second of two calls in succession was rejected for a code
\* that the first call had added to the major.
Wit_C8 ==
    /\ last.op = "add_major_course" /\ last.repeat /\ last.ret = "False"
    /\ last.arg \in Range(major_courses)
    /\ credit_required > 0

(***************************************************************************)
(* The topo_sort specification: topo_sort is a pure function of its        *)
(* argument, a graph over three nodes given as an ordered dict whose lists *)
(* may repeat a target and may name nodes that are no key.                 *)
(***************************************************************************)
Nodes == {CodeA, CodeB, CodeC}

KeyLists == {k \in SeqsUpTo(Nodes, Cardinality(Nodes)) : IsInjective(k)}

\* the adjacency dicts over the given keys with at most n edges in all
RECURSIVE AdjDicts(_, _)
AdjDicts(keys, n) ==
    IF keys = <<>> THEN {EmptyDict}
    ELSE UNION {{(Head(keys) :> l) @@ rest : rest \in AdjDicts(Tail(keys), n - Len(l))} :
                l \in SeqsUpTo(Nodes, n)}

Graphs == UNION {{[keys |-> k, adj |-> a] : a \in AdjDicts(k, MaxEdges)} : k \in KeyLists}

\* the caller holds a graph and has not called yet
InitTopo ==
    /\ courses = EmptyDict
    /\ major_courses = <<>>
    /\ credit_required = 0
    /\ graph = EmptyDict
    /\ courses_taken = {}
    /\ current_semester_courses = {}
    /\ planned_courses = <<>>
    /\ last = NoCall
    /\ topo_graph \in Graphs
    /\ topo_result = <<>>

TopoSortCall ==
    /\ topo_result' = TopoSort(topo_graph)
    /\ last' = Call("topo_sort", <<>>, "None")
    /\ UNCHANGED <<courses, major_courses, credit_required, graph, topo_graph>>
    /\ StudentUnchanged

NextTopo == TopoSortCall

SpecTopo == InitTopo /\ [][NextTopo]_vars

\* the edges of an ordered dict, as pairs
EdgesOf(g) == {<<u, v>> \in Range(g.keys) \X Nodes : v \in Range(g.adj[u])}

\* the nodes that occur as a key or as an edge target
NodesOf(g) == Range(g.keys) \cup {e[2] : e \in EdgesOf(g)}

\* pairs joined by a path of at most n edges (n >= 1)
RECURSIVE PathsUpTo(_, _)
PathsUpTo(E, n) ==
    IF n <= 1 THEN E
    ELSE LET P == PathsUpTo(E, n - 1)
         IN P \cup {<<pe[1][1], pe[2][2]>> : pe \in {x \in P \X E : x[1][2] = x[2][1]}}

HasCycle(g) == \E e \in PathsUpTo(EdgesOf(g), Cardinality(Nodes)) : e[1] = e[2]

\* C3: topo_sort returns exactly as many entries as the graph has nodes (keys
\* and edge targets) when the graph is acyclic, and strictly fewer when it has
\* a cycle.
Th_C3 ==
    last.op = "topo_sort" =>
        IF HasCycle(topo_graph)
        THEN Len(topo_result) < Cardinality(NodesOf(topo_graph))
        ELSE Len(topo_result) = Cardinality(NodesOf(topo_graph))

\* C3 witness: a graph with a cycle through B and C, entered from A, which is
\* outside the cycle; the result is not empty and is short of the node count.
Wit_C3 ==
    /\ last.op = "topo_sort"
    /\ HasCycle(topo_graph)
    /\ topo_result = <<CodeA>>
    /\ Cardinality(NodesOf(topo_graph)) = 3
    /\ EdgesOf(topo_graph) = {<<CodeA, CodeB>>, <<CodeB, CodeC>>, <<CodeC, CodeB>>}

\* C4: the result names no node twice, and for every edge p -> d whose target
\* d is in the result, p is in the result at a strictly earlier position.
Th_C4 ==
    last.op = "topo_sort" =>
        /\ IsInjective(topo_result)
        /\ \A e \in EdgesOf(topo_graph) :
               e[2] \in Range(topo_result) =>
                   /\ e[1] \in Range(topo_result)
                   /\ IndexOf(topo_result, e[1]) < IndexOf(topo_result, e[2])

\* C4 witness: a graph with a duplicate edge whose target is in the result, and
\* with a cycle elsewhere.
Wit_C4 ==
    /\ last.op = "topo_sort"
    /\ HasCycle(topo_graph)
    /\ \E u \in Range(topo_graph.keys) :
           /\ Len(topo_graph.adj[u]) = 2
           /\ topo_graph.adj[u][1] = topo_graph.adj[u][2]
           /\ topo_graph.adj[u][1] \in Range(topo_result)

(***************************************************************************)
(* Claims about generate_plan (checked under SpecPlan).  The claims'       *)
(* notions are defined here from the grid, the catalog and the list of     *)
(* placements of the last call, not from the trackers of the loop.         *)
(***************************************************************************)
\* the label of slot i: "Fall" for even i, "Spring" for odd i
SlotLabel(i) == IF i \in {2 * j : j \in 0..i} THEN "Fall" ELSE "Spring"

\* two courses meet on some weekday in overlapping intervals
CoursesOverlap(c1, c2) ==
    \E day \in DOMAIN courses[c1].weekly_hours \cap DOMAIN courses[c2].weekly_hours :
        LET a == courses[c1].weekly_hours[day]
            b == courses[c2].weekly_hours[day]
        IN ~(a[2] <= b[1] \/ a[1] >= b[2])

\* what slot i held before the last generate_plan call appended to it
HeldBefore(i) ==
    SubSeq(planned_courses[i], 1,
           Len(planned_courses[i]) - Cardinality({j \in 1..Len(last.trace) : last.trace[j].sem = i - 1}))

\* every course placed by an earlier call was moved into courses_taken or
\* current_semester_courses before the last call
EarlierMoved ==
    \A i \in 1..Len(planned_courses) :
        Range(HeldBefore(i)) \subseteq courses_taken \cup current_semester_courses

\* C1: after generate_plan calls between which the placed courses were moved
\* into courses_taken / current_semester_courses, no semester slot of the grid
\* holds two different courses whose weekly intervals overlap on a weekday.
Cx_C1 ==
    (last.op = "generate_plan" /\ EarlierMoved) =>
        \A i \in 1..Len(planned_courses) :
            \A c1, c2 \in Range(planned_courses[i]) : c1 # c2 => ~CoursesOverlap(c1, c2)

\* C2: every course in slot i of the grid is offered in the term of slot i, so
\* a course offered in no term, or in Summer only, is in no slot.
Th_C2 ==
    \A i \in 1..Len(planned_courses) :
        \A c \in Range(planned_courses[i]) : SlotLabel(i - 1) \in courses[c].semesters_offered

\* C2 witness: generate_plan has placed other courses into a grid of two
\* slots while a required course with no offered term is in no slot.
Wit_C2 ==
    /\ last.op = "generate_plan"
    /\ Len(planned_courses) = 2
    /\ GridSize(planned_courses) >= 2
    /\ \E c \in Range(major_courses) :
           /\ courses[c].semesters_offered = {}
           /\ c \notin courses_taken \cup current_semester_courses
           /\ \A i \in 1..Len(planned_courses) : c \notin Range(planned_courses[i])

IsPrefix(s, t) == Len(s) <= Len(t) /\ SubSeq(t, 1, Len(s)) = s

\* C9: generate_plan(k) only appends: slots below k are as before, what a slot
\* held before is a prefix of what it holds after, and grid length, catalog,
\* major and graph are unchanged.
Th_C9 ==
    [][last'.op = "generate_plan" =>
          /\ Len(planned_courses') = Len(planned_courses)
          /\ \A i \in 1..Len(planned_courses) :
                 /\ i - 1 < last'.k => planned_courses'[i] = planned_courses[i]
                 /\ IsPrefix(planned_courses[i], planned_courses'[i])
          /\ UNCHANGED <<courses, major_courses, credit_required, graph>>]_vars

\* C9 witness: a call with k = 1 has appended to slot 1 while slot 0 keeps the
\* course an earlier call had put there.
Wit_C9 ==
    /\ last.op = "generate_plan" /\ last.k = 1
    /\ Len(planned_courses) >= 2
    /\ planned_courses[1] # <<>>
    /\ \E j \in 1..Len(last.trace) : last.trace[j].sem = 1

\* the courses the last call had placed in slot sem before its j-th placement
PlacedBefore(j, sem) == {last.trace[i].code : i \in {x \in 1..(j - 1) : last.trace[x].sem = sem}}

\* the running average of slot sem before the j-th placement, as a quotient
AvgBefore(j, sem) ==
    LET idx == {x \in 1..(j - 1) : last.trace[x].sem = sem}
        tot == SumSeq([y \in 1..(j - 1) |-> IF y \in idx THEN courses[last.trace[y].code].difficulty
                                             ELSE 0])
    IN IF idx = {} THEN <<0, 1>> ELSE <<tot, Cardinality(idx)>>

\* the candidate slots of the j-th placement
CandidatesAt(j) ==
    {sem \in last.k..(Len(planned_courses) - 1) :
        /\ SlotLabel(sem) \in courses[last.trace[j].code].semesters_offered
        /\ \A c \in PlacedBefore(j, sem) : ~CoursesOverlap(last.trace[j].code, c)}

\* C10: each placement goes to a candidate slot of minimal running average,
\* and to the lowest index among the candidates of that average.
Th_C10 ==
    last.op = "generate_plan" =>
        \A j \in 1..Len(last.trace) :
            LET best == last.trace[j].sem IN
            /\ best \in CandidatesAt(j)
            /\ \A c \in CandidatesAt(j) :
                   /\ AvgBefore(j, best)[1] * AvgBefore(j, c)[2] <= AvgBefore(j, c)[1] * AvgBefore(j, best)[2]
                   /\ AvgBefore(j, best)[1] * AvgBefore(j, c)[2] = AvgBefore(j, c)[1] * AvgBefore(j, best)[2]
                          => best <= c

\* C10 witness: a placement passed over a lower candidate slot of higher
\* average for a slot whose average was lower and not zero.
Wit_C10 ==
    /\ last.op = "generate_plan"
    /\ \E j \in 1..Len(last.trace) :
           \E c \in CandidatesAt(j) :
               /\ c < last.trace[j].sem
               /\ AvgBefore(j, last.trace[j].sem)[1] > 0
               /\ AvgBefore(j, last.trace[j].sem)[1] * AvgBefore(j, c)[2]
                      < AvgBefore(j, c)[1] * AvgBefore(j, last.trace[j].sem)[2]

\* the codes a step appended to slot i (element i of the grid)
NewIn(i) == SubSeq(planned_courses'[i], Len(planned_courses[i]) + 1, Len(planned_courses'[i]))

\* the sum of the difficulties of a list of codes
DiffTotal(s) == SumSeq([j \in 1..Len(s) |-> courses[s[j]].difficulty])

RECURSIVE Fact(_)
Fact(n) == IF n <= 1 THEN 1 ELSE n * Fact(n - 1)

\* C11: generate_plan(k) returns the mean, over the slots with index >= k that
\* received a course in this call, of the average difficulty of the courses the
\* call put into the slot (a mean of per-slot means), and 0 when no slot
\* received a course.  With n/d the returned quotient, F the slots that
\* received a course, T_i and c_i the difficulty total and the number of the
\* courses appended to slot i, and D a common multiple of the c_i:
\* n * |F| * D = d * sum of T_i * (D / c_i).
Th_C11 ==
    [][last'.op = "generate_plan" =>
          LET F == {i \in (last'.k + 1)..Len(planned_courses') : NewIn(i) # <<>>}
              D == Fact(SumSeq([i \in 1..Len(planned_courses') |-> Len(NewIn(i))]))
              S == SumSeq([i \in 1..Len(planned_courses') |->
                              IF i \in F THEN DiffTotal(NewIn(i)) * (D \div Len(NewIn(i))) ELSE 0])
          IN /\ last'.ret[2] > 0
             /\ IF F = {} THEN last'.ret[1] = 0
                ELSE last'.ret[1] * Cardinality(F) * D = last'.ret[2] * S]_vars

\* C11 witness: A (difficulty 4, Fall) and B (prerequisite A, difficulty 2,
\* overlapping A on Monday), grid of two slots, k = 0: A is in slot 0, B in
\* slot 1 and the call returned 3.
Wit_C11 ==
    /\ last.op = "generate_plan" /\ last.k = 0
    /\ courses[CodeA].difficulty = 4 /\ courses[CodeB].difficulty = 2
    /\ courses[CodeB].requirements = <<CodeA>>
    /\ CoursesOverlap(CodeA, CodeB)
    /\ planned_courses = << <<CodeA>>, <<CodeB>> >>
    /\ last.trace = << [code |-> CodeA, sem |-> 0], [code |-> CodeB, sem |-> 1] >>
    /\ last.ret[1] = 3 * last.ret[2]

\* C12: placement follows descending difficulty, not the topological order: of
\* a prerequisite p and its dependent d that one call both places, with p of
\* lower difficulty than d, d is placed first, whatever slot p will get.
Th_C12 ==
    last.op = "generate_plan" =>
        \A jp, jd \in 1..Len(last.trace) :
            LET p == last.trace[jp].code
                d == last.trace[jd].code
            IN (/\ p \in Range(courses[d].requirements)
                /\ courses[p].difficulty < courses[d].difficulty)
               => jd < jp

\* C12 witness: one call has placed a dependent d in a slot strictly before the
\* slot of its prerequisite p, p being of lower difficulty than d and both
\* members of the major that were remaining.
Wit_C12 ==
    /\ last.op = "generate_plan"
    /\ \E jp, jd \in 1..Len(last.trace) :
           LET p == last.trace[jp].code
               d == last.trace[jd].code
           IN /\ p \in Range(courses[d].requirements)
              /\ HasEdge(graph, p, d)
              /\ {p, d} \subseteq Range(major_courses)
              /\ courses[p].difficulty < courses[d].difficulty
              /\ last.trace[jd].sem < last.trace[jp].sem
              /\ d \in Range(planned_courses[last.trace[jd].sem + 1])
              /\ p \in Range(planned_courses[last.trace[jp].sem + 1])

\* the remaining courses: the members of the major neither taken nor enrolled
RemainingSet == Range(major_courses) \ (courses_taken \cup current_semester_courses)

\* the edges of the prerequisite graph between remaining courses
InducedEdges == {e \in RemainingSet \X RemainingSet : HasEdge(graph, e[1], e[2])}

\* the remaining courses that lie on a cycle of the induced graph
OnCycle == {c \in RemainingSet : <<c, c>> \in PathsUpTo(InducedEdges, Cardinality(Nodes))}

\* the remaining courses on a cycle or reachable from one
HeldByCycle ==
    OnCycle \cup {c \in RemainingSet :
                     \E x \in OnCycle : <<x, c>> \in PathsUpTo(InducedEdges, Cardinality(Nodes))}

\* course c was placed by the step, or no slot from k on could take it: each
\* is outside its offered terms or received a course at least as difficult
\* (so placed before c's turn) that overlaps c
Considered(c, k) ==
    \/ \E i \in (k + 1)..Len(planned_courses') : c \in Range(NewIn(i))
    \/ \A i \in (k + 1)..Len(planned_courses') :
           \/ SlotLabel(i - 1) \notin courses[c].semesters_offered
           \/ \E c2 \in Range(NewIn(i)) :
                  /\ CoursesOverlap(c, c2)
                  /\ courses[c2].difficulty >= courses[c].difficulty

\* C13: when the prerequisite graph induced on the remaining courses has a
\* cycle, generate_plan returns a number as usual; it appends no course that
\* lies on a cycle or is reachable from one, while every other remaining
\* course is placed unless no slot can take it.
Th_C13 ==
    [][(last'.op = "generate_plan" /\ OnCycle # {}) =>
          /\ last'.ret[2] > 0
          /\ \A c \in HeldByCycle :
                 \A i \in 1..Len(planned_courses') : c \notin Range(NewIn(i))
          /\ \A c \in RemainingSet \ HeldByCycle : Considered(c, last'.k)]_vars

\* C13 witness: A requires itself, B requires A and C requires nothing, all
\* three remaining: the call has returned, C is in the grid, A and B are in no
\* slot.
Wit_C13 ==
    /\ last.op = "generate_plan" /\ last.ret[2] > 0
    /\ RemainingSet = {CodeA, CodeB, CodeC}
    /\ OnCycle = {CodeA}
    /\ HeldByCycle = {CodeA, CodeB}
    /\ {last.trace[j].code : j \in 1..Len(last.trace)} = {CodeC}
    /\ \E i \in 1..Len(planned_courses) : CodeC \in Range(planned_courses[i])
    /\ \A i \in 1..Len(planned_courses) : Range(planned_courses[i]) \cap {CodeA, CodeB} = {}

\* C14: the codes one generate_plan call appends are remaining courses (members
\* of the major, neither in courses_taken nor in current_semester_courses, so
\* never a prerequisite from outside the major), and no code is appended
\* twice, in one slot or in two.
Th_C14 ==
    [][last'.op = "generate_plan" =>
          \A i \in 1..Len(planned_courses') :
              /\ IsInjective(NewIn(i))
              /\ \A c \in Range(NewIn(i)) :
                     /\ c \in Range(major_courses)
                     /\ c \notin courses_taken
                     /\ c \notin current_semester_courses
              /\ \A j \in 1..Len(planned_courses') :
                     j # i => Range(NewIn(i)) \cap Range(NewIn(j)) = {}]_vars

\* C14 witness: the major is {B, C}, B requires A, which is no member, and the
\* student is enrolled in C: the call has appended B, once, and neither A nor C.
Wit_C14 ==
    /\ last.op = "generate_plan"
    /\ Range(major_courses) = {CodeB, CodeC}
    /\ courses[CodeB].requirements = <<CodeA>>
    /\ HasEdge(graph, CodeA, CodeB)
    /\ current_semester_courses = {CodeC}
    /\ last.trace # <<>>
    /\ \A j \in 1..Len(last.trace) : last.trace[j].code = CodeB
    /\ SumSeq([i \in 1..Len(planned_courses) |->
                  Cardinality({n \in 1..Len(planned_courses[i]) : planned_courses[i][n] = CodeB})]) = 1
    /\ \A i \in 1..Len(planned_courses) : Range(planned_courses[i]) \cap {CodeA, CodeC} = {}

====
